---- MODULE Spec2Model ----
(***************************************************************************)
(* Model of downsample.py: main(inDir, outDir) mirrors a directory of      *)
(* textures, resizing oversized JPEGs and copying everything else.         *)
(*                                                                         *)
(* Paths and file names are sequences of one-character strings, so that    *)
(* os.path.splitext, os.path.basename, str.lower and glob's '*' pattern    *)
(* are computed character by character as the library computes them.       *)
(* A file's bytes are a record [kind, w, h, id]: id identifies the bytes   *)
(* originally stored, (w, h) is what the decoder reports for them.         *)
(***************************************************************************)
EXTENDS Integers, Sequences, FiniteSets, TLC

\* ------------------------------------------------------------------ bounds
MaxFiles == 3      \* most entries in the input directory
MaxRuns == 2       \* most consecutive invocations of main

\* ------------------------------------------------------- program constants
MAX_RES == 2048
JpegQuality == 100
FloatMantissaBits == 53   \* Python float is an IEEE-754 double

\* ------------------------------------------------------------ path strings
SEP == "/"
DOT == "."
inDirPath == <<"i">>
outDirPath == <<"o">>

Name_a_jpg == <<"a", ".", "j", "p", "g">>
Name_B_JPEG == <<"B", ".", "J", "P", "E", "G">>
Name_c_Png == <<"c", ".", "P", "n", "g">>
Name_d_png == <<"d", ".", "p", "n", "g">>
Name_f_txt == <<"f", ".", "t", "x", "t">>
Name_hidden == <<".", "h">>
Name_s == <<"s">>
Name_stale == <<"z">>

Names == {Name_a_jpg, Name_B_JPEG, Name_c_Png, Name_d_png, Name_f_txt, Name_hidden, Name_s}

Range(s) == {s[k] : k \in 1..Len(s)}

\* str.lower() on one character (the alphabet of the names above)
LowerChar(c) ==
    CASE c = "B" -> "b"
      [] c = "E" -> "e"
      [] c = "G" -> "g"
      [] c = "J" -> "j"
      [] c = "P" -> "p"
      [] OTHER -> c

Lower(s) == [k \in 1..Len(s) |-> LowerChar(s[k])]

\* str.rfind(ch): the last index holding ch, 0 when there is none (1-based)
RFind(p, ch) ==
    LET hits == {k \in 1..Len(p) : p[k] = ch}
    IN  IF hits = {} THEN 0 ELSE CHOOSE k \in hits : \A m \in hits : m <= k

\* os.path.join(a, b) for a relative b
Join(dir, name) == dir \o <<SEP>> \o name

\* os.path.basename(p)
Basename(p) == SubSeq(p, RFind(p, SEP) + 1, Len(p))

\* os.path.splitext(p)[1]: the extension starts at the last dot after the last
\* separator, unless only dots stand between the separator and that dot.
SplitextExt(p) ==
    LET sepIndex == RFind(p, SEP)
        dotIndex == RFind(p, DOT)
    IN  IF dotIndex > sepIndex
             /\ \E k \in (sepIndex + 1)..(dotIndex - 1) : p[k] # DOT
        THEN SubSeq(p, dotIndex, Len(p))
        ELSE <<>>

\* the set of line 71
extensions == {<<".", "p", "n", "g">>, <<".", "j", "p", "g">>, <<".", "j", "p", "e", "g">>}

\* the tuple of line 96
lossyExtensions == {<<".", "j", "p", "e", "g">>, <<".", "j", "p", "g">>}

\* the test of line 74
IsImageExt(p) == Lower(SplitextExt(p)) \in extensions

\* variant: the resized buffer is saved for every recognised extension
IsLossyExtAnyImage(p) == Lower(SplitextExt(p)) \in extensions

\* the test of line 96
IsLossyExt(p) == Lower(SplitextExt(p)) \in lossyExtensions

\* fnmatch of a base name against '*': glob never matches a leading dot
MatchesStar(name) == Len(name) > 0 /\ name[1] # DOT

\* variant: the listing is walked backwards
GlobReversed(exists, listing) ==
    IF exists
    THEN LET visible == SelectSeq(listing, MatchesStar)
         IN  [k \in 1..Len(visible) |-> Join(inDirPath, visible[Len(visible) + 1 - k])]
    ELSE <<>>

\* glob(os.path.join(inDir, '*')): the visible entries in listing order; an
\* absent directory matches nothing and raises nothing.
Glob(exists, listing) ==
    IF exists
    THEN LET visible == SelectSeq(listing, MatchesStar)
         IN  [k \in 1..Len(visible) |-> Join(inDirPath, visible[k])]
    ELSE <<>>

\* ------------------------------------------------------------ file contents
RawShape == <<"raw", 0, 0>>
DirShape == <<"dir", 0, 0>>
BadShape == <<"bad", 0, 0>>
ImgShape(w, h) == <<"img", w, h>>

\* what an entry of the input directory can hold, per name
ImageShapes ==
    {BadShape, ImgShape(MAX_RES, 1024), ImgShape(2 * MAX_RES, MAX_RES), ImgShape(2 * MAX_RES, 1)}

ShapesFor(name) ==
    IF IsImageExt(name) THEN ImageShapes
    ELSE IF name = Name_s THEN {RawShape, DirShape}
    ELSE {RawShape}

FileOf(shape, ident) == [kind |-> shape[1], w |-> shape[2], h |-> shape[3], id |-> ident, quality |-> 0]

StaleContent == FileOf(RawShape, Name_stale)

\* a dict from base names to contents, and a write into it
EmptyDir == [n \in {} |-> StaleContent]

\* variant: an existing entry is kept and the new bytes go to a backup name
WriteFileBackup(dir, name, content) ==
    LET target == IF name \in DOMAIN dir THEN name \o <<"~">> ELSE name
    IN  [n \in (DOMAIN dir) \cup {target} |-> IF n = target THEN content ELSE dir[n]]

WriteFile(dir, name, content) ==
    [n \in (DOMAIN dir) \cup {name} |-> IF n = name THEN content ELSE dir[n]]

\* ------------------------------------------------------- resize arithmetic
Max(a, b) == IF a >= b THEN a ELSE b

RECURSIVE ShiftRight(_, _)
ShiftRight(m, n) == IF n = 0 \/ m = 0 THEN m ELSE ShiftRight(m \div 2, n - 1)

\* least k >= 0 with 2^k >= u, for u >= 1
RECURSIVE CeilLog2(_)
CeilLog2(u) == IF u <= 1 THEN 0 ELSE 1 + CeilLog2((u + 1) \div 2)

\* variant: round(dim / ratio) instead of int(dim / ratio)
IntOfQuotientRounded(dim, maxDimension) ==
    (2 * dim * MAX_RES + maxDimension) \div (2 * maxDimension)

\* int(dim / ratio) with ratio = float(maxDimension) / MAX_RES  (lines 47-49).
\* ratio is exact (a division by a power of two); dim / ratio is the exact
\* quotient q = dim * MAX_RES / maxDimension rounded to the nearest double,
\* ties to even, and int() truncates.  With ip = floor(q) and rem the
\* remainder, q rounds up to the integer ip + 1 exactly when the gap
\* (maxDimension - rem) / maxDimension is at most half the spacing of the
\* doubles just below ip + 1, which is 2^(e - FloatMantissaBits) for
\* e = CeilLog2(ip + 1) - 1.
IntOfQuotient(dim, maxDimension) ==
    LET num == dim * MAX_RES
        ip == num \div maxDimension
        rem == num % maxDimension
        e == CeilLog2(ip + 1) - 1
        halfSpacingOf == ShiftRight(maxDimension, FloatMantissaBits - e)
    IN  IF rem = 0 THEN ip
        ELSE IF maxDimension - rem <= halfSpacingOf THEN ip + 1
        ELSE ip

\* variant: the threshold test is strict, so max(W,H) = MAX_RES is resized
ResizeStrictThreshold(content) ==
    IF content.kind # "img"
    THEN [outcome |-> "IOError", width |-> 0, height |-> 0, asked |-> FALSE]
    ELSE LET maxDimension == Max(content.w, content.h)
         IN  IF maxDimension < MAX_RES
             THEN [outcome |-> "NoResizeNeeded", width |-> 0, height |-> 0, asked |-> FALSE]
             ELSE LET width == IntOfQuotient(content.w, maxDimension)
                      height == IntOfQuotient(content.h, maxDimension)
                  IN  [outcome |-> IF width < 1 \/ height < 1 THEN "ValueError" ELSE "resized",
                       width |-> width, height |-> height, asked |-> TRUE]

\* resize(inFile), lines 41-59: the exception raised, or the size handed to
\* img.resize.  Image.open raises IOError on anything that is not a decodable
\* image; img.resize raises ValueError when asked for an empty image.
Resize(content) ==
    IF content.kind # "img"
    THEN [outcome |-> "IOError", width |-> 0, height |-> 0, asked |-> FALSE]
    ELSE LET maxDimension == Max(content.w, content.h)
         IN  IF maxDimension <= MAX_RES
             THEN [outcome |-> "NoResizeNeeded", width |-> 0, height |-> 0, asked |-> FALSE]
             ELSE LET width == IntOfQuotient(content.w, maxDimension)
                      height == IntOfQuotient(content.h, maxDimension)
                  IN  [outcome |-> IF width < 1 \/ height < 1 THEN "ValueError" ELSE "resized",
                       width |-> width, height |-> height, asked |-> TRUE]

\* resized.save(outPath, quality=100), line 97: the encoder's output is a
\* function of the source pixels (id), the new size and the quality.
Save(content, width, height) ==
    [kind |-> "jpeg", w |-> width, h |-> height, id |-> content.id, quality |-> JpegQuality]

\* ------------------------------------------------------------------- state
VARIABLES
    inExists,     \* the input directory exists
    listing,      \* os.listdir order of the input directory (base names)
    inContent,    \* base name -> bytes, for the entries of the input directory
    outExists,    \* the output directory exists
    outFiles,     \* base name -> bytes, for the entries of the output directory
    pc,           \* where main is: "idle", "classify", "others", "images",
                  \* "exit", "returned", "raised"
    allFiles,     \* line 66
    imgFiles,     \* line 68
    otherFiles,   \* line 69
    idx,          \* position of the running for loop
    err,          \* the exception that left main, "none" when there is none
    runs,         \* invocations of main so far
    asked,        \* the sizes img.resize was called with, by base name
    log,          \* the file operations of the current run, in order
    startNames,   \* entries of the output directory when the run began
    firstOut      \* output directory as the first completed run left it

vars == <<inExists, listing, inContent, outExists, outFiles, pc, allFiles, imgFiles,
          otherFiles, idx, err, runs, asked, log, startNames, firstOut>>

inputVars == <<inExists, listing, inContent>>

NoSnapshot == [valid |-> FALSE, files |-> EmptyDir]

Injective(s) == \A a, b \in 1..Len(s) : s[a] = s[b] => a = b

OutDirChoices == {EmptyDir, (Name_stale :> StaleContent) @@ (Name_f_txt :> StaleContent)}

Init ==
    /\ inExists \in BOOLEAN
    /\ \E n \in 0..MaxFiles : \E s \in [1..n -> Names] :
          /\ Injective(s)
          /\ inExists \/ n = 0
          /\ listing = s
          /\ \E shape \in [Range(s) -> ImageShapes \cup {RawShape, DirShape}] :
                /\ \A nm \in Range(s) : shape[nm] \in ShapesFor(nm)
                /\ inContent = [nm \in Range(s) |-> FileOf(shape[nm], nm)]
    /\ outExists \in BOOLEAN
    /\ outFiles \in (IF outExists THEN OutDirChoices ELSE {EmptyDir})
    /\ pc = "idle"
    /\ allFiles = <<>>
    /\ imgFiles = <<>>
    /\ otherFiles = <<>>
    /\ idx = 1
    /\ err = "none"
    /\ runs = 0
    /\ asked = EmptyDir
    /\ log = <<>>
    /\ startNames = {}
    /\ firstOut = NoSnapshot

\* where control goes once the loop over otherFiles has handled position k
AfterOthers(k) ==
    IF k <= Len(otherFiles) THEN "others"
    ELSE IF Len(imgFiles) > 0 THEN "images"
    ELSE "exit"

\* lines 63-66: create the output directory when absent, list the input
MainBegin ==
    /\ pc \in {"idle", "returned", "raised"}
    /\ runs < MaxRuns
    /\ runs' = runs + 1
    /\ outExists' = TRUE
    /\ startNames' = DOMAIN outFiles
    /\ allFiles' = Glob(inExists, listing)
    /\ imgFiles' = <<>>
    /\ otherFiles' = <<>>
    /\ idx' = 1
    /\ err' = "none"
    /\ asked' = EmptyDir
    /\ log' = <<>>
    /\ pc' = "classify"
    /\ UNCHANGED <<inputVars, outFiles, firstOut>>

\* lines 68-77: split the listing by extension, keeping its order
Classify ==
    /\ pc = "classify"
    /\ imgFiles' = SelectSeq(allFiles, IsImageExt)
    /\ otherFiles' = SelectSeq(allFiles, LAMBDA f : ~IsImageExt(f))
    /\ idx' = 1
    /\ pc' = IF Len(otherFiles') > 0 THEN "others"
             ELSE IF Len(imgFiles') > 0 THEN "images"
             ELSE "exit"
    /\ UNCHANGED <<inputVars, outExists, outFiles, allFiles, err, runs, asked, log,
                   startNames, firstOut>>

\* shutil.copyfile(src, dst): a directory as source raises IOError
CopyRaises(name) == inContent[name].kind = "dir"

\* lines 80-83: one iteration of the loop over otherFiles
CopyOther ==
    /\ pc = "others"
    /\ idx <= Len(otherFiles)
    /\ LET f == otherFiles[idx]
           name == Basename(Join(outDirPath, Basename(f)))
       IN  IF CopyRaises(Basename(f))
           THEN /\ err' = "IOError"
                /\ pc' = "raised"
                /\ UNCHANGED <<outFiles, idx, log>>
           ELSE /\ outFiles' = WriteFile(outFiles, name, inContent[Basename(f)])
                /\ log' = Append(log, [op |-> "copyfile", name |-> Basename(f)])
                /\ pc' = AfterOthers(idx + 1)
                /\ idx' = IF pc' = "others" THEN idx + 1 ELSE 1
                /\ err' = err
    /\ UNCHANGED <<inputVars, outExists, allFiles, imgFiles, otherFiles, runs, asked,
                   startNames, firstOut>>

\* variant: every exception of resize is swallowed and the loop goes on
ImagePcSkip(outcome) ==
    IF idx < Len(imgFiles) THEN "images" ELSE "exit"

\* lines 90-99: an exception other than NoResizeNeeded is not caught and
\* leaves main; otherwise the loop goes on to the next image or ends.
ImagePc(outcome) ==
    IF outcome \in {"IOError", "ValueError"} THEN "raised"
    ELSE IF idx < Len(imgFiles) THEN "images"
    ELSE "exit"

\* lines 85-99: one iteration of the loop over imgFiles
ProcessImage ==
    /\ pc = "images"
    /\ idx <= Len(imgFiles)
    /\ LET f == imgFiles[idx]
           src == Basename(f)
           name == Basename(Join(outDirPath, Basename(f)))
           r == Resize(inContent[src])
           opened == Append(log, [op |-> "open", name |-> src])
       IN  /\ asked' = IF r.asked THEN WriteFile(asked, src, <<r.width, r.height>>) ELSE asked
           /\ CASE r.outcome = "NoResizeNeeded" ->
                     /\ outFiles' = WriteFile(outFiles, name, inContent[src])
                     /\ log' = Append(opened, [op |-> "copyfile", name |-> src])
                     /\ err' = err
                [] r.outcome = "resized" /\ IsLossyExt(f) ->
                     /\ outFiles' = WriteFile(outFiles, name, Save(inContent[src], r.width, r.height))
                     /\ log' = Append(opened, [op |-> "save", name |-> src])
                     /\ err' = err
                [] r.outcome = "resized" /\ ~IsLossyExt(f) ->
                     /\ outFiles' = WriteFile(outFiles, name, inContent[src])
                     /\ log' = Append(opened, [op |-> "copyfile", name |-> src])
                     /\ err' = err
                [] OTHER ->
                     /\ err' = r.outcome
                     /\ log' = opened
                     /\ outFiles' = outFiles
           /\ pc' = ImagePc(r.outcome)
           /\ idx' = IF pc' = "images" THEN idx + 1 ELSE idx
    /\ UNCHANGED <<inputVars, outExists, allFiles, imgFiles, otherFiles, runs,
                   startNames, firstOut>>

\* main returns normally
MainReturn ==
    /\ pc = "exit"
    /\ pc' = "returned"
    /\ firstOut' = IF firstOut.valid THEN firstOut ELSE [valid |-> TRUE, files |-> outFiles]
    /\ UNCHANGED <<inputVars, outExists, outFiles, allFiles, imgFiles, otherFiles, idx,
                   err, runs, asked, log, startNames>>

Next ==
    \/ MainBegin
    \/ Classify
    \/ CopyOther
    \/ ProcessImage
    \/ MainReturn

Spec == Init /\ [][Next]_vars

\* ---------------------------------------------- resize over many dimensions
\* The same program run on a directory holding one text file and one image,
\* the image's decoded size ranging over ResizeDims x ResizeDims.
ResizeDims ==
    {1, 2, 3, 1023, MAX_RES - 1, MAX_RES, MAX_RES + 1, 3000, 2 * MAX_RES - 1, 2 * MAX_RES,
     2 * MAX_RES + 1, 6000, 4 * MAX_RES}

InitResize ==
    /\ inExists = TRUE
    /\ \E img \in {Name_a_jpg, Name_B_JPEG, Name_c_Png} : \E w, h \in ResizeDims :
          /\ listing = <<img, Name_f_txt>>
          /\ inContent = (img :> FileOf(ImgShape(w, h), img))
                            @@ (Name_f_txt :> FileOf(RawShape, Name_f_txt))
    /\ outExists = FALSE
    /\ outFiles = EmptyDir
    /\ pc = "idle"
    /\ allFiles = <<>>
    /\ imgFiles = <<>>
    /\ otherFiles = <<>>
    /\ idx = 1
    /\ err = "none"
    /\ runs = 0
    /\ asked = EmptyDir
    /\ log = <<>>
    /\ startNames = {}
    /\ firstOut = NoSnapshot

SpecResize == InitResize /\ [][Next]_vars

\* ===================================================================== claims
\* helpers shared by the properties below
Returned == pc = "returned"

ImgIndices == 1..Len(imgFiles)

SrcOf(k) == Basename(imgFiles[k])

Oversized(c) == c.kind = "img" /\ Max(c.w, c.h) > MAX_RES

FitsThreshold(c) == c.kind = "img" /\ Max(c.w, c.h) <= MAX_RES

Logged(operation, name) == \E k \in 1..Len(log) : log[k].op = operation /\ log[k].name = name

NamesOf(events) == [k \in 1..Len(events) |-> events[k].name]

IsPrefix(a, b) == Len(a) <= Len(b) /\ a = SubSeq(b, 1, Len(a))

ExtIs(p, exts) == Lower(SplitextExt(p)) \in exts

PngExt == {<<".", "p", "n", "g">>}

JpegExts == {<<".", "j", "p", "g">>, <<".", "j", "p", "e", "g">>}

ImageExts == PngExt \cup JpegExts

\* base names of the entries main was given by the directory listing
ListedNames == {Basename(allFiles[k]) : k \in 1..Len(allFiles)}

FloorScaled(dim, maxDimension) == (dim * MAX_RES) \div maxDimension

\* C1: after a run that returns normally and began with the output directory
\* absent or empty, the base names in the output directory are exactly the
\* base names of the entries of the input directory.
C1_OneOutputPerInput ==
    (Returned /\ startNames = {} /\ inExists) => DOMAIN outFiles = Range(listing)

\* C2: a listed file with extension .png/.jpg/.jpeg (any casing) whose
\* decoded size has max(W,H) <= MAX_RES (the boundary included) is never
\* re-encoded, and once it has been handled (at the latest when main returns)
\* the output entry of the same base name holds exactly the input's bytes.
C2_SmallImageCopiedVerbatim ==
    \A nm \in ListedNames :
        (ExtIs(nm, ImageExts) /\ FitsThreshold(inContent[nm])) =>
            /\ ~Logged("save", nm)
            /\ (Returned \/ Logged("copyfile", nm)) =>
                  /\ nm \in DOMAIN outFiles
                  /\ outFiles[nm] = inContent[nm]

C2_Witness ==
    /\ Returned
    /\ \E k \in ImgIndices :
          /\ inContent[SrcOf(k)].kind = "img"
          /\ Max(inContent[SrcOf(k)].w, inContent[SrcOf(k)].h) = MAX_RES
          /\ ExtIs(imgFiles[k], JpegExts)
          /\ outFiles[SrcOf(k)] = inContent[SrcOf(k)]

C4_NonImageCopiedVerbatim ==
    Returned =>
        \A nm \in Range(listing) :
            ~ExtIs(Join(inDirPath, nm), ImageExts) =>
                /\ nm \in DOMAIN outFiles
                /\ outFiles[nm] = inContent[nm]
                /\ ~Logged("open", nm)

C6_MissingInputIsFatal ==
    (~inExists /\ runs > 0) => (pc \notin {"exit", "returned"} /\ log = <<>>)

\* C7: when resize raises anything other than NoResizeNeeded for an image
\* entry, main is left with that exception: the failed open is the last
\* operation of the run, nothing is written for the entry, no later image is
\* touched, and the run never returns normally.
C7_UndecodableImageAborts ==
    \A k \in ImgIndices :
        (Resize(inContent[SrcOf(k)]).outcome \in {"IOError", "ValueError"}) =>
            /\ ~Returned /\ pc # "exit"
            /\ ~Logged("copyfile", SrcOf(k))
            /\ ~Logged("save", SrcOf(k))
            /\ SrcOf(k) \notin DOMAIN outFiles
            /\ Logged("open", SrcOf(k)) =>
                  /\ pc = "raised"
                  /\ err = Resize(inContent[SrcOf(k)]).outcome
                  /\ log[Len(log)] = [op |-> "open", name |-> SrcOf(k)]
                  /\ \A j \in ImgIndices : j > k => ~Logged("open", SrcOf(j))

C7_Witness ==
    /\ pc = "raised"
    /\ err = "IOError"
    /\ Len(imgFiles) >= 2
    /\ Logged("open", SrcOf(1))
    /\ inContent[SrcOf(2)].kind = "img"
    /\ ~Logged("open", SrcOf(2))
    /\ SrcOf(2) \notin DOMAIN outFiles

\* C8: with the input directory unchanged, every later run that completes
\* leaves the output directory with the same entries and the same bytes per
\* entry as the first completed run left it.
C8_Idempotent ==
    (pc \in {"exit", "returned"} /\ firstOut.valid) => outFiles = firstOut.files

C8_Witness ==
    /\ Returned
    /\ runs = 2
    /\ firstOut.valid
    /\ \E nm \in DOMAIN outFiles : outFiles[nm].kind = "jpeg"
    /\ \E nm \in DOMAIN outFiles : outFiles[nm].kind = "raw" /\ nm \in Range(listing)

\* listing-order views used by C9
ListedOthers == SelectSeq(listing, LAMBDA nm : MatchesStar(nm) /\ ~ExtIs(nm, ImageExts))

ListedImages == SelectSeq(listing, LAMBDA nm : MatchesStar(nm) /\ ExtIs(nm, ImageExts))

OtherEvents == SelectSeq(log, LAMBDA e : ~ExtIs(e.name, ImageExts))

ImageLoads == SelectSeq(log, LAMBDA e : ExtIs(e.name, ImageExts) /\ e.op = "open")

C10_TargetSizePositive ==
    \A nm \in DOMAIN asked : asked[nm][1] >= 1 /\ asked[nm][2] >= 1

====
